---- MODULE Spec2Model ----
(***************************************************************************)
(* Model of jules-scratch/verification/verify_footer.py: a linear          *)
(* Playwright script.  One process invocation enters the sync_playwright   *)
(* context, calls run(playwright) and leaves the context.  Every library   *)
(* call of run() is one action; a call either completes and control moves  *)
(* to the next statement, or it raises and the exception leaves run()      *)
(* (run() has no try/except/finally).  The calls that block (goto, the     *)
(* three to_be_visible assertions, click, wait_for_load_state) poll until  *)
(* their condition is met or the library's default timeout elapses.        *)
(* browser.close() is the one call modelled as not raising: the library    *)
(* suppresses the errors of closing a session.                             *)
(* The script may be invoked again after the process has exited.           *)
(***************************************************************************)
EXTENDS Naturals, Sequences, FiniteSets, TLC

\* Number of successive invocations of the script that are explored.
MaxRuns == 2

\* Number of polling rounds a blocking call makes before its default
\* timeout elapses (an abstraction of the library's default timeout).
MaxPolls == 2

VARIABLES
    pc,          \* the statement the process is at
    runNo,       \* ordinal of the current invocation (1, 2, ...)
    playwright,  \* the sync_playwright context: "none", "started", "stopped"
    browser,     \* the session held by `browser`: "none", "open", "closed"
    page,        \* what `page` shows: "none", "about:blank", "landing", "privacy"
    scrolled,    \* whether the page is scrolled to the bottom of the body
    polls,       \* polling rounds the current blocking call has made
    log,         \* the calls of run() that have completed in this invocation
    failedAt,    \* the call that raised in this invocation, or "none"
    exitStatus,  \* <<>> while the process runs, then <<status>>
    fs,          \* the files on disk: path -> content
    fsStart,     \* the files on disk when this invocation started
    fs0,         \* the files on disk before the first invocation
    reachable    \* whether the server at the URL accepts connections

vars == <<pc, runNo, playwright, browser, page, scrolled, polls, log,
          failedAt, exitStatus, fs, fsStart, fs0, reachable>>

----------------------------------------------------------------------------
\* Paths and literals of the script.

Url == "http://localhost:4174/"

LandingPng == "jules-scratch/verification/landing_page_with_footer.png"

PrivacyPng == "jules-scratch/verification/privacy_policy_page.png"

\* The script itself: a file that is on disk and is not an output.
ScriptFile == "jules-scratch/verification/verify_footer.py"

\* page.screenshot(path=...) is called without full_page, so the library's
\* default applies: the capture is of the viewport, not of the full page.
FullPageArg == FALSE

\* Content of a file that was on disk before the first invocation.
OldContent == [run |-> 0, page |-> "unknown", scrolled |-> FALSE, fullPage |-> FALSE]

\* What page.screenshot captures now.
Capture == [run |-> runNo, page |-> page, scrolled |-> scrolled, fullPage |-> FullPageArg]

\* A variant that leaves an existing file alone.
WriteIfAbsent(f, path, content) ==
    IF path \in DOMAIN f THEN f
    ELSE [p \in DOMAIN f \cup {path} |-> IF p = path THEN content ELSE f[p]]

\* A variant that adds a new file beside an existing one.
WriteBeside(f, path, content) ==
    LET target == IF path \in DOMAIN f THEN path \o ".1" ELSE path
    IN  [p \in DOMAIN f \cup {target} |-> IF p = target THEN content ELSE f[p]]

\* Writing a file at a path: creates it, or replaces what is there.
Write(f, path, content) ==
    [p \in DOMAIN f \cup {path} |-> IF p = path THEN content ELSE f[p]]

----------------------------------------------------------------------------
\* Control flow helpers.

\* Call s returned: control moves to the next statement.
Complete(s, next) ==
    /\ pc' = next
    /\ log' = Append(log, s)
    /\ polls' = 0
    /\ UNCHANGED failedAt

\* A variant in which the failed call is attempted again.
RaiseRetry(s) ==
    /\ pc' = s
    /\ failedAt' = s
    /\ polls' = 0
    /\ UNCHANGED log

\* Call s raised: nothing in run() catches, the exception leaves run().
Raise(s) ==
    /\ pc' = "unwind"
    /\ failedAt' = s
    /\ polls' = 0
    /\ UNCHANGED log

\* A variant in which the timeout never elapses (the timer restarts).
TickNoTimeout ==
    /\ polls' = IF polls < MaxPolls THEN polls + 1 ELSE 0
    /\ UNCHANGED <<pc, log, failedAt>>

\* A blocking call polls once more: its condition is not met yet.
Tick ==
    /\ polls < MaxPolls
    /\ polls' = polls + 1
    /\ UNCHANGED <<pc, log, failedAt>>

\* The default timeout of blocking call s elapsed: the call raises.
Timeout(s) ==
    /\ polls = MaxPolls
    /\ Raise(s)

----------------------------------------------------------------------------
Init ==
    /\ pc = "enter"
    /\ runNo = 1
    /\ playwright = "none"
    /\ browser = "none"
    /\ page = "none"
    /\ scrolled = FALSE
    /\ polls = 0
    /\ log = <<>>
    /\ failedAt = "none"
    /\ exitStatus = <<>>
    /\ \E present \in SUBSET {LandingPng, PrivacyPng} :
          fs = [p \in present \cup {ScriptFile} |-> OldContent]
    /\ fsStart = fs
    /\ fs0 = fs
    /\ reachable \in BOOLEAN

\* with sync_playwright() as playwright:
Enter ==
    /\ pc = "enter"
    /\ \/ /\ playwright' = "started"
          /\ pc' = "launch"
          /\ UNCHANGED failedAt
       \/ /\ pc' = "unwind"
          /\ failedAt' = "enter"
          /\ UNCHANGED playwright
    /\ UNCHANGED <<runNo, browser, page, scrolled, polls, log, exitStatus,
                   fs, fsStart, fs0, reachable>>

\* browser = playwright.chromium.launch()
Launch ==
    /\ pc = "launch"
    /\ \/ /\ browser' = "open"
          /\ Complete("launch", "new_page")
       \/ /\ Raise("launch")
          /\ UNCHANGED browser
    /\ UNCHANGED <<runNo, playwright, page, scrolled, exitStatus,
                   fs, fsStart, fs0, reachable>>

\* page = browser.new_page()
NewPage ==
    /\ pc = "new_page"
    /\ \/ /\ page' = "about:blank"
          /\ Complete("new_page", "goto")
       \/ /\ Raise("new_page")
          /\ UNCHANGED page
    /\ UNCHANGED <<runNo, playwright, browser, scrolled, exitStatus,
                   fs, fsStart, fs0, reachable>>

\* A variant in which a failed navigation is ignored.
GotoIgnoreFailure ==
    /\ pc = "goto"
    /\ \/ /\ reachable
          /\ page' = "landing"
          /\ scrolled' = FALSE
          /\ Complete("goto", "expect_subtitle")
       \/ /\ reachable
          /\ Tick
          /\ UNCHANGED <<page, scrolled>>
       \/ /\ reachable
          /\ Timeout("goto")
          /\ UNCHANGED <<page, scrolled>>
       \/ /\ ~reachable
          /\ pc' = "expect_subtitle"
          /\ polls' = 0
          /\ UNCHANGED <<page, scrolled, log, failedAt>>
    /\ UNCHANGED <<runNo, playwright, browser, exitStatus,
                   fs, fsStart, fs0, reachable>>

\* page.goto("http://localhost:4174/")
Goto ==
    /\ pc = "goto"
    /\ \/ /\ reachable
          /\ page' = "landing"
          /\ scrolled' = FALSE
          /\ Complete("goto", "expect_subtitle")
       \/ /\ reachable
          /\ Tick
          /\ UNCHANGED <<page, scrolled>>
       \/ /\ reachable
          /\ Timeout("goto")
          /\ UNCHANGED <<page, scrolled>>
       \/ /\ ~reachable
          /\ Raise("goto")
          /\ UNCHANGED <<page, scrolled>>
    /\ UNCHANGED <<runNo, playwright, browser, exitStatus,
                   fs, fsStart, fs0, reachable>>

\* expect(page.locator('p:has-text("We match developers ...")')).to_be_visible()
ExpectSubtitle ==
    /\ pc = "expect_subtitle"
    /\ \/ Complete("expect_subtitle", "evaluate")
       \/ Tick
       \/ Timeout("expect_subtitle")
    /\ UNCHANGED <<runNo, playwright, browser, page, scrolled, exitStatus,
                   fs, fsStart, fs0, reachable>>

\* A variant in which control skips the first screenshot.
EvaluateSkip ==
    /\ pc = "evaluate"
    /\ \/ /\ scrolled' = TRUE
          /\ Complete("evaluate", "expect_link")
       \/ /\ Raise("evaluate")
          /\ UNCHANGED scrolled
    /\ UNCHANGED <<runNo, playwright, browser, page, exitStatus,
                   fs, fsStart, fs0, reachable>>

\* page.evaluate("window.scrollTo(0, document.body.scrollHeight)")
Evaluate ==
    /\ pc = "evaluate"
    /\ \/ /\ scrolled' = TRUE
          /\ Complete("evaluate", "screenshot_landing")
       \/ /\ Raise("evaluate")
          /\ UNCHANGED scrolled
    /\ UNCHANGED <<runNo, playwright, browser, page, exitStatus,
                   fs, fsStart, fs0, reachable>>

\* A variant in which the session is closed right after the first screenshot.
ScreenshotLandingThenClose ==
    /\ pc = "screenshot_landing"
    /\ \/ /\ fs' = Write(fs, LandingPng, Capture)
          /\ browser' = "closed"
          /\ Complete("screenshot_landing", "expect_link")
       \/ /\ Raise("screenshot_landing")
          /\ UNCHANGED <<fs, browser>>
    /\ UNCHANGED <<runNo, playwright, page, scrolled, exitStatus,
                   fsStart, fs0, reachable>>

\* page.screenshot(path="jules-scratch/verification/landing_page_with_footer.png")
ScreenshotLanding ==
    /\ pc = "screenshot_landing"
    /\ \/ /\ fs' = Write(fs, LandingPng, Capture)
          /\ Complete("screenshot_landing", "expect_link")
       \/ /\ Raise("screenshot_landing")
          /\ UNCHANGED fs
    /\ UNCHANGED <<runNo, playwright, browser, page, scrolled, exitStatus,
                   fsStart, fs0, reachable>>

\* privacy_policy_link = page.locator('a:has-text("Privacy Policy")')
\* expect(privacy_policy_link).to_be_visible()
ExpectLink ==
    /\ pc = "expect_link"
    /\ \/ Complete("expect_link", "click")
       \/ Tick
       \/ Timeout("expect_link")
    /\ UNCHANGED <<runNo, playwright, browser, page, scrolled, exitStatus,
                   fs, fsStart, fs0, reachable>>

\* privacy_policy_link.click()
Click ==
    /\ pc = "click"
    /\ \/ /\ page' = "privacy"
          /\ scrolled' = FALSE
          /\ Complete("click", "wait_for_load_state")
       \/ /\ Tick
          /\ UNCHANGED <<page, scrolled>>
       \/ /\ Timeout("click")
          /\ UNCHANGED <<page, scrolled>>
    /\ UNCHANGED <<runNo, playwright, browser, exitStatus,
                   fs, fsStart, fs0, reachable>>

\* page.wait_for_load_state("networkidle")
WaitForLoadState ==
    /\ pc = "wait_for_load_state"
    /\ \/ Complete("wait_for_load_state", "expect_heading")
       \/ Tick
       \/ Timeout("wait_for_load_state")
    /\ UNCHANGED <<runNo, playwright, browser, page, scrolled, exitStatus,
                   fs, fsStart, fs0, reachable>>

\* A variant in which an unmet heading expectation does not stop the run.
ExpectHeadingSoft ==
    /\ pc = "expect_heading"
    /\ \/ Complete("expect_heading", "screenshot_privacy")
       \/ Tick
       \/ /\ polls = MaxPolls
          /\ pc' = "screenshot_privacy"
          /\ polls' = 0
          /\ UNCHANGED <<log, failedAt>>
    /\ UNCHANGED <<runNo, playwright, browser, page, scrolled, exitStatus,
                   fs, fsStart, fs0, reachable>>

\* expect(page.locator('h1:has-text("Privacy Policy")')).to_be_visible()
ExpectHeading ==
    /\ pc = "expect_heading"
    /\ \/ Complete("expect_heading", "screenshot_privacy")
       \/ Tick
       \/ Timeout("expect_heading")
    /\ UNCHANGED <<runNo, playwright, browser, page, scrolled, exitStatus,
                   fs, fsStart, fs0, reachable>>

\* page.screenshot(path="jules-scratch/verification/privacy_policy_page.png")
ScreenshotPrivacy ==
    /\ pc = "screenshot_privacy"
    /\ \/ /\ fs' = Write(fs, PrivacyPng, Capture)
          /\ Complete("screenshot_privacy", "close")
       \/ /\ Raise("screenshot_privacy")
          /\ UNCHANGED fs
    /\ UNCHANGED <<runNo, playwright, browser, page, scrolled, exitStatus,
                   fsStart, fs0, reachable>>

\* browser.close(), after which run() returns to the with block.
Close ==
    /\ pc = "close"
    /\ browser' = "closed"
    /\ page' = "none"
    /\ Complete("close", "exit_ctx")
    /\ UNCHANGED <<runNo, playwright, scrolled, exitStatus,
                   fs, fsStart, fs0, reachable>>

\* run() returned: the with block ends, the module ends, the process exits 0.
ExitCtx ==
    /\ pc = "exit_ctx"
    /\ playwright' = "stopped"
    /\ exitStatus' = <<0>>
    /\ pc' = "exited"
    /\ UNCHANGED <<runNo, browser, page, scrolled, polls, log, failedAt,
                   fs, fsStart, fs0, reachable>>

\* A variant in which run() releases the session on the failure path.
UncaughtWithCleanup ==
    /\ pc = "unwind"
    /\ playwright' = IF playwright = "started" THEN "stopped" ELSE playwright
    /\ browser' = IF browser = "open" THEN "closed" ELSE browser
    /\ exitStatus' = <<1>>
    /\ pc' = "exited"
    /\ UNCHANGED <<runNo, page, scrolled, polls, log, failedAt,
                   fs, fsStart, fs0, reachable>>

\* A variant in which the exception is swallowed at module level.
UncaughtSwallowed ==
    /\ pc = "unwind"
    /\ playwright' = IF playwright = "started" THEN "stopped" ELSE playwright
    /\ exitStatus' = <<0>>
    /\ pc' = "exited"
    /\ UNCHANGED <<runNo, browser, page, scrolled, polls, log, failedAt,
                   fs, fsStart, fs0, reachable>>

\* An exception leaves run() and the with block (whose __exit__ stops the
\* context if it was entered); nothing at module level catches it, so the
\* interpreter exits with status 1.  The browser handle is not touched.
Uncaught ==
    /\ pc = "unwind"
    /\ playwright' = IF playwright = "started" THEN "stopped" ELSE playwright
    /\ exitStatus' = <<1>>
    /\ pc' = "exited"
    /\ UNCHANGED <<runNo, browser, page, scrolled, polls, log, failedAt,
                   fs, fsStart, fs0, reachable>>

\* The script is invoked again: a new process, the same disk.
Reinvoke ==
    /\ pc = "exited"
    /\ runNo < MaxRuns
    /\ runNo' = runNo + 1
    /\ pc' = "enter"
    /\ playwright' = "none"
    /\ browser' = "none"
    /\ page' = "none"
    /\ scrolled' = FALSE
    /\ polls' = 0
    /\ log' = <<>>
    /\ failedAt' = "none"
    /\ exitStatus' = <<>>
    /\ fsStart' = fs
    /\ reachable' \in BOOLEAN
    /\ UNCHANGED <<fs, fs0>>

Next ==
    \/ Enter
    \/ Launch
    \/ NewPage
    \/ Goto
    \/ ExpectSubtitle
    \/ Evaluate
    \/ ScreenshotLanding
    \/ ExpectLink
    \/ Click
    \/ WaitForLoadState
    \/ ExpectHeading
    \/ ScreenshotPrivacy
    \/ Close
    \/ ExitCtx
    \/ Uncaught
    \/ Reinvoke

Spec == Init /\ [][Next]_vars

\* The process is scheduled and the library's timers advance: a step that
\* can be taken is eventually taken.
FairSpec == Spec /\ WF_vars(Next)

----------------------------------------------------------------------------
\* Vocabulary of the properties.

\* The order of the calls of run() as the specification states it.
StatedOrder ==
    << "launch", "new_page", "goto", "expect_subtitle", "evaluate",
       "screenshot_landing", "expect_link", "click", "wait_for_load_state",
       "expect_heading", "screenshot_privacy", "close" >>

\* The operations on the page or its browser that need an open session.
SessionOps ==
    { "new_page", "goto", "expect_subtitle", "evaluate", "screenshot_landing",
      "expect_link", "click", "wait_for_load_state", "expect_heading",
      "screenshot_privacy" }

\* The position of call s in the stated order (0 if it is not a call of run()).
Position(s) ==
    IF \E i \in 1..Len(StatedOrder) : StatedOrder[i] = s
    THEN CHOOSE i \in 1..Len(StatedOrder) : StatedOrder[i] = s
    ELSE 0

\* The calls of the stated order that come before call s.
Before(s) == SubSeq(StatedOrder, 1, Position(s) - 1)

Done(s) == \E i \in 1..Len(log) : log[i] = s

Closes == Cardinality({i \in 1..Len(log) : log[i] = "close"})

Exited == pc = "exited"

CompletedAll == log = StatedOrder

Failed == failedAt # "none"

\* File at path was written by the current invocation.
WrittenThisRun(path) == path \in DOMAIN fs /\ fs[path].run = runNo

\* File at path is as it was when the current invocation started.
Untouched(path) ==
    /\ (path \in DOMAIN fs) = (path \in DOMAIN fsStart)
    /\ path \in DOMAIN fs => fs[path] = fsStart[path]

\* The names of the files written by the script so far.
OutputNames == {p \in DOMAIN fs : fs[p].run > 0}

----------------------------------------------------------------------------
\* C1: in every invocation the completed calls of run() form a prefix of the
\* stated order (launch, new page, goto, subtitle visible, scroll,
\* screenshot 1, link visible, click, network idle, heading visible,
\* screenshot 2, close): none skipped, reordered or repeated, and the call
\* in progress is the one right after the completed ones.
C1_StepsInOrder ==
    /\ Len(log) <= Len(StatedOrder)
    /\ log = SubSeq(StatedOrder, 1, Len(log))
    /\ Position(pc) > 0 => log = Before(pc)

C1_Witness == Exited /\ CompletedAll

\* C2: when the server is unreachable, goto fails and the invocation writes
\* neither screenshot: the disk stays as it was when the invocation started.
C2_UnreachableNoScreenshot ==
    /\ ~reachable => ~Done("goto")
    /\ (~reachable \/ failedAt = "goto") =>
          /\ fs = fsStart
          /\ ~WrittenThisRun(LandingPng)
          /\ ~WrittenThisRun(PrivacyPng)

C2_Witness == Exited /\ ~reachable /\ failedAt = "goto" /\ runNo = 2

\* C3: every page operation is at a moment when the session is open, the
\* completed page operations all precede close, close completes at most
\* once, and in an invocation that completes all calls it completes exactly
\* once, as the last call, leaving the session closed.
C3_SessionLifecycle ==
    /\ pc \in SessionOps => browser = "open"
    /\ \A i \in 1..Len(log) :
          log[i] \in SessionOps => \A j \in 1..i : log[j] # "close"
    /\ Closes <= 1
    /\ browser = "closed" => Closes = 1
    /\ CompletedAll =>
          /\ Closes = 1
          /\ log[Len(log)] = "close"
          /\ browser = "closed"

C3_Witness == Exited /\ CompletedAll /\ browser = "closed"

\* C4: an invocation either completes all calls, and then both screenshots
\* were written by it, or it fails at one call: the completed calls are
\* exactly those before the failed one, and after the failure control is
\* only on the way out (no later call, no retry).
C4_TwoOutcomes ==
    /\ Exited => (CompletedAll /\ ~Failed) \/ (Failed /\ ~CompletedAll)
    /\ CompletedAll => WrittenThisRun(LandingPng) /\ WrittenThisRun(PrivacyPng)
    /\ Failed =>
          /\ log = Before(failedAt)
          /\ pc \in {"unwind", "exited"}

C4_Witness == Exited /\ failedAt = "expect_link" /\ log = Before("expect_link")

\* C5: the exit status is 0 exactly when every call through browser.close()
\* completed; a failed call gives a non-zero status.
C5_ExitStatus ==
    /\ exitStatus # <<>> <=> Exited
    /\ Exited => (exitStatus = <<0>> <=> CompletedAll)
    /\ Exited /\ Failed => exitStatus = <<1>>

C5_Witness == Exited /\ failedAt = "expect_subtitle" /\ exitStatus = <<1>>

\* C6: after a successful invocation the files on disk are those that were
\* there before the first invocation plus the two fixed paths, the script's
\* outputs are exactly the two fixed paths, each holding what this
\* invocation captured; a successful invocation that follows a successful
\* one leaves the set of file names as it found it.
C6_Overwrite ==
    (Exited /\ CompletedAll) =>
        /\ DOMAIN fs = DOMAIN fs0 \cup {LandingPng, PrivacyPng}
        /\ OutputNames = {LandingPng, PrivacyPng}
        /\ fs[LandingPng].run = runNo
        /\ fs[PrivacyPng].run = runNo
        /\ ( /\ LandingPng \in DOMAIN fsStart
             /\ PrivacyPng \in DOMAIN fsStart
             /\ fsStart[LandingPng].run = runNo - 1
             /\ fsStart[PrivacyPng].run = runNo - 1 ) =>
               DOMAIN fs = DOMAIN fsStart

C6_Witness ==
    /\ Exited /\ CompletedAll /\ runNo = 2
    /\ LandingPng \in DOMAIN fsStart
    /\ PrivacyPng \in DOMAIN fsStart
    /\ fsStart[LandingPng].run = 1
    /\ fsStart[PrivacyPng].run = 1
    /\ fs[LandingPng].run = 2
    /\ fs[PrivacyPng].run = 2

\* C7: when an invocation fails at a call after the launch, close is never
\* executed in it: the session stays opened and not closed by the script.
C7_NoCleanupOnFailure ==
    (Failed /\ Position(failedAt) > 1) =>
        /\ ~Done("close")
        /\ pc # "close"
        /\ browser = "open"

C7_Witness == Exited /\ failedAt = "click" /\ browser = "open"

\* C8 as stated: the first screenshot is a full-page capture, taken after
\* the scroll to the bottom, replacing any file at its path.
C8_FullPageAsStated ==
    Done("screenshot_landing") =>
        /\ WrittenThisRun(LandingPng)
        /\ fs[LandingPng].scrolled
        /\ fs[LandingPng].fullPage

\* C8 (amended): the first screenshot is a capture of the viewport (no
\* full_page argument is passed), taken of the landing page after the
\* scroll to the bottom, and it replaces any file at its path.
C8_ViewportAfterScroll ==
    Done("screenshot_landing") =>
        /\ Done("evaluate")
        /\ LandingPng \in DOMAIN fs
        /\ fs[LandingPng] =
              [run |-> runNo, page |-> "landing", scrolled |-> TRUE, fullPage |-> FALSE]

C8_Witness ==
    /\ Done("screenshot_landing")
    /\ LandingPng \in DOMAIN fsStart
    /\ fs[LandingPng] # fsStart[LandingPng]

\* C9: every invocation terminates: each blocking call succeeds or fails
\* when its timeout elapses, so a running process eventually exits, either
\* having completed all calls or having failed.
C9_Terminates == (~Exited) ~> (Exited /\ (CompletedAll \/ Failed))

C9_Witness == Exited /\ failedAt = "wait_for_load_state" /\ runNo = 2

\* C10: the second screenshot is written by an invocation only after the
\* first screenshot was written, the click happened, the network-idle wait
\* returned and the heading assertion passed, all in that invocation; an
\* invocation failing at the link assertion, the click, the network-idle
\* wait or the heading assertion has written the first screenshot and left
\* the second path as it was.
C10_SecondScreenshotGuarded ==
    /\ (WrittenThisRun(PrivacyPng) \/ Done("screenshot_privacy")) =>
          /\ WrittenThisRun(LandingPng)
          /\ Done("screenshot_landing")
          /\ Done("click")
          /\ Done("wait_for_load_state")
          /\ Done("expect_heading")
    /\ failedAt \in {"expect_link", "click", "wait_for_load_state", "expect_heading"} =>
          /\ WrittenThisRun(LandingPng)
          /\ ~WrittenThisRun(PrivacyPng)
          /\ Untouched(PrivacyPng)

C10_Witness ==
    /\ Exited /\ failedAt = "expect_heading"
    /\ WrittenThisRun(LandingPng)
    /\ PrivacyPng \in DOMAIN fs
    /\ fs[PrivacyPng].run = 1
    /\ runNo = 2

====
